---- MODULE Spec2Model ----
(***************************************************************************)
(* A model of the retail-insight-genie retrieval pipeline: load_docs and   *)
(* the RAG class of src/rag.py, and precision_at_k / evaluate of           *)
(* src/evaluate.py.                                                        *)
(*                                                                         *)
(* Representation.  A Python str is a sequence of whitespace separated     *)
(* words, so "" is <<>> and the f-string "{title} {description}" is the    *)
(* concatenation of the two word sequences.  A dict is a function whose    *)
(* domain is the set of keys it holds; an absent key is absent from the    *)
(* domain.  Mutable objects (the dicts json.load creates, the copies the   *)
(* engine makes) live in `heap`, and lists hold their addresses, so that   *)
(* sharing between the caller's records and the engine's is visible.       *)
(* TF-IDF weights are kept in fixed point (idf times ten); a cosine score  *)
(* is kept as its square, an exact fraction in lowest terms: squaring is   *)
(* monotone on [0, 1], so order, ties and sign are those of the cosine.    *)
(***************************************************************************)
EXTENDS Integers, Sequences, FiniteSets, TLC

VARIABLES
    pc,             \* position of the calling script
    source,         \* the parsed content of the JSON file handed to load_docs
    loaded,         \* the list load_docs returned: addresses of the caller's records
    heap,           \* address -> dict, every mutable object alive
    docs,           \* RAG.docs: addresses of the engine's own copies
    texts,          \* RAG.texts
    vectorizer,     \* RAG.vectorizer after fit: vocabulary and idf
    doc_vectors,    \* RAG.doc_vectors
    argsortTie,     \* how this numpy build orders equal keys in argsort
    atBuild,        \* what the engine held when __init__ returned
    last,           \* the last retrieve / answer call and what it returned
    SAMPLE_QUERIES, \* evaluate.SAMPLE_QUERIES
    evalK,          \* evaluate's k
    precisions,     \* evaluate's list of per-query precisions
    evalResult,     \* what evaluate returned
    patk            \* the last direct precision_at_k call and its value

vars == <<pc, source, loaded, heap, docs, texts, vectorizer, doc_vectors,
          argsortTie, atBuild, last, SAMPLE_QUERIES, evalK, precisions,
          evalResult, patk>>

engineVars == <<docs, texts, vectorizer, doc_vectors, argsortTie, atBuild>>
evalVars == <<SAMPLE_QUERIES, evalK, precisions, evalResult, patk>>

-----------------------------------------------------------------------------
(* Bounds of the model and the inputs drawn within them.                    *)

MaxDocs == 2
MaxK == 2
MaxQueries == 2
MaxRank == 2

None == <<>>
Some(v) == <<v>>

EmptyDict == [key \in {} |-> <<>>]

\* A JSON object of the source: optional title and description, and one more
\* field whose value is itself an object.
JsonObject(t, d) ==
    ("specs" :> [ram |-> 8])
      @@ (IF t = None THEN EmptyDict ELSE ("title" :> t[1]))
      @@ (IF d = None THEN EmptyDict ELSE ("description" :> d[1]))

\* The records the sources explored are made of: no title and no description,
\* both empty, a title alone, a title and a description sharing a word, a
\* stop-word title with a description.
JsonObjects ==
    {JsonObject(None, None),
     JsonObject(Some(<<>>), Some(<<>>)),
     JsonObject(Some(<<"Laptop">>), None),
     JsonObject(Some(<<"Laptop">>), Some(<<"laptop", "phone">>)),
     JsonObject(Some(<<"the">>), Some(<<"phone">>))}

SeqsUpTo(S, n) == UNION {[1..m -> S] : m \in 0..n}

Sources ==
    {[kind |-> "array", body |-> items] : items \in SeqsUpTo(JsonObjects, MaxDocs)}
      \cup {[kind |-> "object", body |-> o] : o \in {JsonObject(None, None)}}
      \cup {[kind |-> "scalar", body |-> 7]}

Queries == {<<>>, <<"laptop">>, <<"Phone", "the">>, <<"laptop", "phone">>,
            <<"tablet", "x">>}

Ks == (0 - 1)..MaxK

-----------------------------------------------------------------------------
(* Helpers: sequences, fractions.                                           *)

Range(s) == {s[i] : i \in DOMAIN s}

Min(a, b) == IF a < b THEN a ELSE b
Max(a, b) == IF a < b THEN b ELSE a

Reverse(s) == [i \in 1..Len(s) |-> s[Len(s) + 1 - i]]

\* Python's s[:k]: the first k elements, and for a negative k all but the
\* last -k.
PySlice(s, k) ==
    LET n == IF k >= 0 THEN Min(k, Len(s)) ELSE Max(0, Len(s) + k)
    IN  SubSeq(s, 1, n)

RECURSIVE Gcd(_, _)
Gcd(a, b) == IF b = 0 THEN a ELSE Gcd(b, a % b)

RECURSIVE SumSeq(_)
SumSeq(s) == IF s = <<>> THEN 0 ELSE Head(s) + SumSeq(Tail(s))

\* a/b < c/d for a, c >= 0 and b, d > 0, without forming the cross products.
RECURSIVE FracLess(_, _, _, _)
FracLess(a, b, c, d) ==
    IF a \div b # c \div d THEN a \div b < c \div d
    ELSE IF c % d = 0 THEN FALSE
    ELSE IF a % b = 0 THEN TRUE
    ELSE FracLess(d, c % d, b, a % b)

Frac(n, d) == IF n = 0 THEN [num |-> 0, den |-> 1]
              ELSE LET g == Gcd(n, d) IN [num |-> n \div g, den |-> d \div g]

ScoreLess(x, y) == FracLess(x.num, x.den, y.num, y.den)
ScorePositive(x) == x.num > 0

-----------------------------------------------------------------------------
(* load_docs                                                                *)

Get(doc, key, default) == IF key \in DOMAIN doc THEN doc[key] ELSE default

\* json.load on an array of objects: one fresh dict per record and one per
\* nested object, the record holding the address of its nested object.
JsonLoadHeap(items) ==
    [a \in {"rec", "specs"} \X (1..Len(items)) |->
        IF a[1] = "rec" THEN [items[a[2]] EXCEPT !.specs = <<"specs", a[2]>>]
        ELSE items[a[2]].specs]

JsonLoadData(items) == [i \in 1..Len(items) |-> <<"rec", i>>]

\* isinstance(data, list)
IsList(src) == src.kind = "array"

\* load_docs as it would be if it kept only the records that have a title.
LoadDocsResultSkippingUntitled(src) ==
    SelectSeq(JsonLoadData(src.body), LAMBDA a : "title" \in DOMAIN src.body[a[2]])

\* The list load_docs returns, for a source that is a list.
LoadDocsResult(src) == JsonLoadData(src.body)

\* The value a record (or a copy of one) has, nested objects followed.
Deref(h, a) == [h[a] EXCEPT !.specs = h[h[a].specs]]

DerefAll(h, addrs) == [i \in 1..Len(addrs) |-> Deref(h, addrs[i])]

NoCall == [op |-> "none", query |-> <<>>, k |-> 0, results |-> <<>>, answer |-> <<>>]
NoEngine == [docs |-> <<>>, texts |-> <<>>, vectorizer |-> <<>>, doc_vectors |-> <<>>]
NoPatk == [ranking |-> <<>>, relevant_index |-> 0, k |-> 0, value |-> 0]

\* load_docs(path), the file at path holding src.
LoadDocs(src) ==
    /\ pc = "start"
    /\ source' = src
    /\ IF ~IsList(src)
       THEN /\ pc' = "load_error"       \* raise ValueError
            /\ UNCHANGED <<loaded, heap>>
       ELSE /\ pc' = "loaded"
            /\ heap' = JsonLoadHeap(src.body)
            /\ loaded' = LoadDocsResult(src)

Load(src) ==
    /\ LoadDocs(src)
    /\ UNCHANGED <<engineVars, last, evalVars>>

-----------------------------------------------------------------------------
(* RAG.__init__: the copies, the texts, the fitted TfidfVectorizer.         *)

\* [dict(doc) for doc in documents]: a fresh dict per record holding the
\* record's keys and values; a value that is an address stays that address.
CopyDocs(h, documents) ==
    h @@ [a \in {"copy"} \X (1..Len(documents)) |-> h[documents[a[2]]]]

DocsOf(documents) == [i \in 1..Len(documents) |-> <<"copy", i>>]

\* f"{doc.get('title', '')} {doc.get('description', '')}"
TextOf(doc) == Get(doc, "title", <<>>) \o Get(doc, "description", <<>>)

TextsOf(h, ds) == [i \in 1..Len(ds) |-> TextOf(h[ds[i]])]

\* TfidfVectorizer(stop_words="english") with its default analyzer: lower
\* case, keep the tokens of two or more word characters, drop stop words.
StopWords == {"the", "of"}
ShortWords == {"x"}

Lower(w) == CASE w = "Laptop" -> "laptop"
              [] w = "Phone" -> "phone"
              [] OTHER -> w

Analyze(text) ==
    SelectSeq([i \in 1..Len(text) |-> Lower(text[i])],
              LAMBDA w : w \notin ShortWords /\ w \notin StopWords)

Tf(tokens, t) == Cardinality({i \in DOMAIN tokens : tokens[i] = t})

\* The words that can become terms, in the alphabetical order in which fit
\* numbers the dimensions.
Lexicon == <<"laptop", "phone", "tablet">>

\* vocabulary_: the terms seen in some text; a term's dimension is its
\* position.
FitVocabulary(txts) ==
    SelectSeq(Lexicon, LAMBDA t : \E i \in DOMAIN txts : t \in Range(Analyze(txts[i])))

Df(txts, t) == Cardinality({i \in DOMAIN txts : t \in Range(Analyze(txts[i]))})

\* 100 * ln(m) for m = 1..6, and the smoothed idf ln((1 + n) / (1 + df)) + 1
\* in tenths.
LnX100 == <<0, 69, 110, 139, 161, 179>>
IdfX10(n, df) == 10 + (LnX100[1 + n] - LnX100[1 + df] + 5) \div 10

RECURSIVE IdfRow(_, _, _)
IdfRow(txts, vocabulary, d) ==
    IF d = 0 THEN <<>>
    ELSE Append(IdfRow(txts, vocabulary, d - 1),
                IdfX10(Len(txts), Df(txts, vocabulary[d])))

Fit(txts) ==
    LET vocabulary == FitVocabulary(txts)
    IN  [vocabulary |-> vocabulary,
         idf |-> IdfRow(txts, vocabulary, Len(vocabulary))]

RECURSIVE Dot(_, _, _)
Dot(a, b, d) == IF d = 0 THEN 0 ELSE a[d] * b[d] + Dot(a, b, d - 1)

RECURSIVE TfIdfRow(_, _, _)
TfIdfRow(vz, tokens, d) ==
    IF d = 0 THEN <<>>
    ELSE Append(TfIdfRow(vz, tokens, d - 1), Tf(tokens, vz.vocabulary[d]) * vz.idf[d])

\* transform: tf * idf on the fitted vocabulary (a term outside it has no
\* dimension), L2-normalised.  The vector is kept as its unnormalised weights
\* w and its squared norm n2; the normalised vector is w / sqrt(n2), and the
\* zero vector stays zero.
Transform(vz, text) ==
    LET w == TfIdfRow(vz, Analyze(text), Len(vz.vocabulary))
    IN  [w |-> w, n2 |-> Dot(w, w, Len(w))]

Engine ==
    [docs |-> docs, texts |-> texts, vectorizer |-> vectorizer,
     doc_vectors |-> doc_vectors, argsortTie |-> argsortTie]

\* What the engine holds: its documents (nested values followed), texts,
\* vocabulary and idf, document vectors.
EngineState ==
    [docs |-> DerefAll(heap, docs), texts |-> texts, vectorizer |-> vectorizer,
     doc_vectors |-> doc_vectors]

\* RAG(loaded)
RagInit ==
    /\ pc = "loaded"
    /\ LET h == CopyDocs(heap, loaded)
           ds == DocsOf(loaded)
           txts == TextsOf(h, ds)
           vz == Fit(txts)
           vecs == [i \in 1..Len(txts) |-> Transform(vz, txts[i])]
       IN  IF vz.vocabulary = <<>>
           THEN \* fit_transform raises ValueError("empty vocabulary; ..."):
                \* __init__ does not return and no engine exists.
                /\ pc' = "build_error"
                /\ UNCHANGED <<heap, engineVars>>
           ELSE /\ pc' = "built"
                /\ heap' = h
                /\ docs' = ds
                /\ texts' = txts
                /\ vectorizer' = vz
                /\ doc_vectors' = vecs
                /\ argsortTie' \in Permutations(1..Len(txts))
                /\ atBuild' = [docs |-> DerefAll(h, ds), texts |-> txts,
                               vectorizer |-> vz, doc_vectors |-> vecs]
    /\ UNCHANGED <<source, loaded>>

Build ==
    /\ RagInit
    /\ UNCHANGED <<last, evalVars>>

-----------------------------------------------------------------------------
(* RAG.retrieve and RAG.answer                                              *)

\* linear_kernel of two normalised vectors: the cosine, kept squared.
LinearKernel(qv, dv) ==
    LET dot == Dot(qv.w, dv.w, Len(qv.w))
    IN  Frac(dot * dot, qv.n2 * dv.n2)

\* linear_kernel(query_vec, self.doc_vectors).flatten(): one score per
\* document, in document order.
RECURSIVE KernelRow(_, _, _)
KernelRow(query_vec, vectors, n) ==
    IF n = 0 THEN <<>>
    ELSE Append(KernelRow(query_vec, vectors, n - 1),
                LinearKernel(query_vec, vectors[n]))

Scores(eng, query) ==
    KernelRow(Transform(eng.vectorizer, query), eng.doc_vectors, Len(eng.doc_vectors))

\* scores.argsort(): the indices (from 0) in ascending order of score.  The
\* default kind is not stable: equal scores come in the order this build
\* gives them, tie.
KeyBefore(scores, tie, i, j) ==
    IF scores[i] = scores[j] THEN tie[i] < tie[j]
    ELSE ScoreLess(scores[i], scores[j])

RECURSIVE ArgSortUpTo(_, _, _)
ArgSortUpTo(scores, tie, n) ==
    IF n = 0 THEN <<>>
    ELSE LET sorted == ArgSortUpTo(scores, tie, n - 1)
             pos == Cardinality({p \in 1..(n - 1) :
                                    KeyBefore(scores, tie, sorted[p] + 1, n)})
         IN  SubSeq(sorted, 1, pos) \o <<n - 1>> \o SubSeq(sorted, pos + 1, n - 1)

ArgSort(scores, tie) == ArgSortUpTo(scores, tie, Len(scores))

\* The ranking as it would be without the reversal: scores.argsort()[:k].
RankedIndicesNoReverse(scores, tie, k) == PySlice(ArgSort(scores, tie), k)

\* scores.argsort()[::-1][:k]
RankedIndices(scores, tie, k) == PySlice(Reverse(ArgSort(scores, tie)), k)

\* The filter as it would be with scores[idx] >= 0.
PositivePairsKeepZero(ranked_indices, scores) ==
    [p \in 1..Len(ranked_indices) |->
        <<ranked_indices[p], scores[ranked_indices[p] + 1]>>]

\* [(int(idx), float(scores[idx])) for idx in ranked_indices if scores[idx] > 0]
PositivePairs(ranked_indices, scores) ==
    LET kept == SelectSeq(ranked_indices, LAMBDA idx : ScorePositive(scores[idx + 1]))
    IN  [p \in 1..Len(kept) |-> <<kept[p], scores[kept[p] + 1]>>]

RetrieveResult(eng, query, k) ==
    IF query = <<>> THEN <<>>
    ELSE LET scores == Scores(eng, query)
         IN  PositivePairs(RankedIndices(scores, eng.argsortTie, k), scores)

Retrieve(query, k) ==
    /\ pc = "built"
    /\ last' = [op |-> "retrieve", query |-> query, k |-> k,
                results |-> RetrieveResult(Engine, query, k), answer |-> <<>>]
    /\ UNCHANGED <<pc, source, loaded, heap, engineVars, evalVars>>

Fallback == <<"I'm sorry, I couldn't find information on that topic.">>

\* f"{title}: {description}"
Format(title, description) == title \o <<": ">> \o description

\* answer as it would be if it took the last retrieved pair, results[-1].
AnswerResultLastPair(h, eng, results) ==
    IF results = <<>> THEN Fallback
    ELSE LET doc == h[eng.docs[results[Len(results)][1] + 1]]
         IN  Format(Get(doc, "title", <<>>), Get(doc, "description", <<>>))

\* answer as it would be if it returned "" when nothing is retrieved.
AnswerResultEmptyString(h, eng, results) ==
    IF results = <<>> THEN <<>>
    ELSE LET doc == h[eng.docs[results[1][1] + 1]]
         IN  Format(Get(doc, "title", <<>>), Get(doc, "description", <<>>))

\* lines 100-106 of answer, given what retrieve returned.
AnswerResult(h, eng, results) ==
    IF results = <<>> THEN Fallback
    ELSE LET doc == h[eng.docs[results[1][1] + 1]]
         IN  Format(Get(doc, "title", <<>>), Get(doc, "description", <<>>))

\* answer as it would be if it took the document out of the engine's list,
\* self.docs.pop(idx).
AnswerPoppingDoc(query, k) ==
    /\ pc = "built"
    /\ LET results == RetrieveResult(Engine, query, k)
       IN  /\ last' = [op |-> "answer", query |-> query, k |-> k, results |-> results,
                       answer |-> AnswerResult(heap, Engine, results)]
           /\ docs' = IF results = <<>> THEN docs
                      ELSE SubSeq(docs, 1, results[1][1])
                             \o SubSeq(docs, results[1][1] + 2, Len(docs))
    /\ UNCHANGED <<pc, source, loaded, heap, texts, vectorizer, doc_vectors,
                   argsortTie, atBuild, evalVars>>

Answer(query, k) ==
    /\ pc = "built"
    /\ LET results == RetrieveResult(Engine, query, k)
       IN  last' = [op |-> "answer", query |-> query, k |-> k,
                    results |-> results, answer |-> AnswerResult(heap, Engine, results)]
    /\ UNCHANGED <<pc, source, loaded, heap, engineVars, evalVars>>

-----------------------------------------------------------------------------
(* The retrieval pipeline: load, build, then any retrieve and answer calls. *)

Init ==
    /\ pc = "start"
    /\ source = [kind |-> "none", body |-> <<>>]
    /\ loaded = <<>>
    /\ heap = EmptyDict
    /\ docs = <<>>
    /\ texts = <<>>
    /\ vectorizer = <<>>
    /\ doc_vectors = <<>>
    /\ argsortTie = <<>>
    /\ atBuild = NoEngine
    /\ last = NoCall
    /\ SAMPLE_QUERIES = <<>>
    /\ evalK = 0
    /\ precisions = <<>>
    /\ evalResult = None
    /\ patk = NoPatk

Next ==
    \/ \E src \in Sources : Load(src)
    \/ Build
    \/ \E query \in Queries, k \in Ks : Retrieve(query, k)
    \/ \E query \in Queries, k \in Ks : Answer(query, k)

Spec == Init /\ [][Next]_vars

-----------------------------------------------------------------------------
(* The caller keeps the list load_docs returned and may change its records  *)
(* after the engine is built.                                               *)

NewTitle == <<"tablet">>
NewSpecs == [ram |-> 16]

\* loaded[i]["title"] = NewTitle
MutateTop(i) ==
    /\ pc = "built"
    /\ i \in 1..Len(loaded)
    /\ heap' = [heap EXCEPT ![loaded[i]] = ("title" :> NewTitle) @@ heap[loaded[i]]]
    /\ UNCHANGED <<pc, source, loaded, engineVars, last, evalVars>>

\* loaded[i]["specs"]["ram"] = 16
MutateNested(i) ==
    /\ pc = "built"
    /\ i \in 1..Len(loaded)
    /\ heap' = [heap EXCEPT ![heap[loaded[i]].specs] = NewSpecs]
    /\ UNCHANGED <<pc, source, loaded, engineVars, last, evalVars>>

NextAlias ==
    \/ Next
    \/ \E i \in 1..MaxDocs : MutateTop(i)
    \/ \E i \in 1..MaxDocs : MutateNested(i)

SpecAlias == Init /\ [][NextAlias]_vars

-----------------------------------------------------------------------------
(* src/evaluate.py: precision_at_k and evaluate.                            *)

\* precision_at_k as it would be without the cut-off: relevant_index in ranking.
PrecisionAtKIgnoringK(ranking, relevant_index, k) ==
    IF relevant_index \in Range(ranking) THEN 1 ELSE 0

\* 1.0 if relevant_index in ranking[:k] else 0.0
PrecisionAtK(ranking, relevant_index, k) ==
    IF relevant_index \in Range(PySlice(ranking, k)) THEN 1 ELSE 0

\* sum(precisions) / len(precisions) if precisions else 0.0, as a fraction
\* in lowest terms.
MeanOrZero(ps) == IF ps # <<>> THEN Frac(SumSeq(ps), Len(ps)) ELSE Frac(0, 1)

\* [idx for idx, _score in results]
Indices(results) == [p \in 1..Len(results) |-> results[p][1]]

\* The catalogs and labelled queries evaluate is run on.
EvalObjects ==
    {JsonObject(Some(<<"Laptop">>), None),
     JsonObject(Some(<<"the">>), Some(<<"phone">>))}

EvalSources ==
    {[kind |-> "array", body |-> items] : items \in SeqsUpTo(EvalObjects, MaxDocs)}
      \cup {[kind |-> "scalar", body |-> 7]}

EvalQueries == {<<"laptop">>, <<"Phone", "the">>}

LabelledQueries == EvalQueries \X (0..(MaxDocs - 1))

PrecisionAtKCall(ranking, relevant_index, k) ==
    /\ pc = "start"
    /\ pc' = "patk_done"
    /\ patk' = [ranking |-> ranking, relevant_index |-> relevant_index, k |-> k,
                value |-> PrecisionAtK(ranking, relevant_index, k)]
    /\ UNCHANGED <<source, loaded, heap, engineVars, last,
                   SAMPLE_QUERIES, evalK, precisions, evalResult>>

\* evaluate(doc_path, k), line 63: docs = load_docs(doc_path)
EvalLoad(src, k) ==
    /\ LoadDocs(src)
    /\ evalK' = k
    /\ UNCHANGED <<engineVars, last, SAMPLE_QUERIES, precisions, evalResult, patk>>

\* line 64: rag = RAG(docs)
EvalBuild ==
    /\ RagInit
    /\ UNCHANGED <<last, evalVars>>

\* lines 66-69: one turn of the loop over SAMPLE_QUERIES
EvalStep ==
    /\ pc = "built"
    /\ Len(precisions) < Len(SAMPLE_QUERIES)
    /\ LET query == SAMPLE_QUERIES[Len(precisions) + 1][1]
           relevant_idx == SAMPLE_QUERIES[Len(precisions) + 1][2]
           results == RetrieveResult(Engine, query, evalK)
           ranking == Indices(results)
       IN  precisions' = Append(precisions, PrecisionAtK(ranking, relevant_idx, evalK))
    /\ UNCHANGED <<pc, source, loaded, heap, engineVars, last,
                   SAMPLE_QUERIES, evalK, evalResult, patk>>

\* line 70
EvalReturn ==
    /\ pc = "built"
    /\ Len(precisions) = Len(SAMPLE_QUERIES)
    /\ pc' = "evaluated"
    /\ evalResult' = Some(MeanOrZero(precisions))
    /\ UNCHANGED <<source, loaded, heap, engineVars, last,
                   SAMPLE_QUERIES, evalK, precisions, patk>>

InitEval ==
    /\ pc = "start"
    /\ source = [kind |-> "none", body |-> <<>>]
    /\ loaded = <<>>
    /\ heap = EmptyDict
    /\ docs = <<>>
    /\ texts = <<>>
    /\ vectorizer = <<>>
    /\ doc_vectors = <<>>
    /\ argsortTie = <<>>
    /\ atBuild = NoEngine
    /\ last = NoCall
    /\ SAMPLE_QUERIES \in SeqsUpTo(LabelledQueries, MaxQueries)
    /\ evalK = 0
    /\ precisions = <<>>
    /\ evalResult = None
    /\ patk = NoPatk

NextEval ==
    \/ \E ranking \in SeqsUpTo(0..(MaxDocs - 1), MaxRank),
          relevant_index \in 0..(MaxDocs - 1), k \in Ks :
          PrecisionAtKCall(ranking, relevant_index, k)
    \/ \E src \in EvalSources, k \in Ks : EvalLoad(src, k)
    \/ EvalBuild
    \/ EvalStep
    \/ EvalReturn

SpecEval == InitEval /\ [][NextEval]_vars

-----------------------------------------------------------------------------
(* Properties.                                                              *)

Called == last.op \in {"retrieve", "answer"}

\* The engine as it was when __init__ returned (the tie order belongs to the
\* numpy build, not to the engine).
EngineAtBuild ==
    [docs |-> docs, texts |-> atBuild.texts, vectorizer |-> atBuild.vectorizer,
     doc_vectors |-> atBuild.doc_vectors, argsortTie |-> argsortTie]

PositiveCount(query) ==
    LET scores == Scores(Engine, query)
    IN  Cardinality({i \in 1..Len(scores) : ScorePositive(scores[i])})

Textless(doc) == Get(doc, "title", <<>>) = <<>> /\ Get(doc, "description", <<>>) = <<>>

ScoresNonIncreasing(results) ==
    \A p, r \in 1..Len(results) : p < r => ~ScoreLess(results[p][2], results[r][2])

\* C1 as stated: for a non-empty query and k >= 0 the pairs retrieve returns
\* are in non-increasing order of score, and two documents of equal score are
\* in ascending order of document index.
C1_TiesAscendingByIndex ==
    (Called /\ last.query # <<>> /\ last.k >= 0) =>
        /\ ScoresNonIncreasing(last.results)
        /\ \A p, r \in 1..Len(last.results) :
              (p < r /\ last.results[p][2] = last.results[r][2])
                  => last.results[p][1] < last.results[r][1]

\* C1 amended: for a non-empty query and k >= 0 the pairs retrieve returns
\* are in non-increasing order of score, and two documents of equal score are
\* in the reverse of the order argsort gives them (descending document index
\* where argsort keeps equal scores in index order).
C1_ScoresNonIncreasingTiesReversed ==
    (Called /\ last.query # <<>> /\ last.k >= 0) =>
        /\ ScoresNonIncreasing(last.results)
        /\ \A p, r \in 1..Len(last.results) :
              (p < r /\ last.results[p][2] = last.results[r][2])
                  => argsortTie[last.results[p][1] + 1] > argsortTie[last.results[r][1] + 1]

\* Two documents of equal score returned, the higher index first.
C1_Witness ==
    /\ last.op = "retrieve" /\ last.query # <<>> /\ last.k >= 2
    /\ Len(last.results) = 2
    /\ last.results[1][2] = last.results[2][2]
    /\ last.results[1][1] > last.results[2][1]

\* C2: for k >= 0, retrieve returns exactly min(k, number of documents with a
\* positive score) pairs, each with a positive score, and nothing for k = 0.
C2_LengthIsMinKPositive ==
    (Called /\ last.k >= 0) =>
        /\ Len(last.results) = Min(last.k, PositiveCount(last.query))
        /\ \A p \in 1..Len(last.results) : ScorePositive(last.results[p][2])
        /\ last.k = 0 => last.results = <<>>

\* k cuts the result short: more documents score positive than are returned.
C2_Witness ==
    /\ last.op = "retrieve" /\ last.k >= 1
    /\ Len(last.results) = last.k
    /\ PositiveCount(last.query) > last.k

\* C3 as stated: building from zero documents succeeds, and on that engine
\* retrieve returns the empty list and answer the fallback string.
C3_EmptyCollectionBuilds ==
    (IsList(source) /\ Len(source.body) = 0 /\ pc \notin {"start", "loaded"}) =>
        /\ pc = "built"
        /\ Called => last.results = <<>>
        /\ last.op = "answer" => last.answer = Fallback

\* C4: answer returns the fallback string exactly when retrieve(query, k) is
\* empty, otherwise "<title>: <description>" of the stored document of the
\* first pair, and never the empty string.
C4_AnswerFallbackOrTopDocument ==
    last.op = "answer" =>
        LET results == RetrieveResult(Engine, last.query, last.k)
        IN  /\ last.answer = Fallback <=> results = <<>>
            /\ results # <<>> =>
                 LET doc == EngineState.docs[results[1][1] + 1]
                 IN  last.answer = Get(doc, "title", <<>>) \o <<": ">>
                                     \o Get(doc, "description", <<>>)
            /\ last.answer # <<>>

\* answer composed from a top document that is not document 0, out of two
\* retrieved ones.
C4_Witness ==
    /\ last.op = "answer"
    /\ Len(last.results) = 2
    /\ last.results[1][1] # 0
    /\ last.answer # Fallback

\* C5: load_docs raises the format error exactly when the top level of the
\* source is not a list, and then returns nothing; for a list of N records it
\* returns N records in source order, every value as in the source, records
\* without title or description included.
C5_LoadFormatErrorOrRecords ==
    pc # "start" =>
        /\ pc = "load_error" <=> source.kind \in {"object", "scalar"}
        /\ pc = "load_error" => loaded = <<>> /\ heap = EmptyDict
        /\ source.kind = "array" =>
              /\ Len(loaded) = Len(source.body)
              /\ \A i \in 1..Len(loaded) : Deref(heap, loaded[i]) = source.body[i]

\* Two records loaded, the first without a title.
C5_Witness ==
    /\ pc = "loaded"
    /\ Len(loaded) >= 2
    /\ "title" \notin DOMAIN heap[loaded[1]]
    /\ "title" \in DOMAIN heap[loaded[2]]

\* C6 as stated: build accepts documents without title or description, in
\* any collection that holds one (also when every document has no text),
\* taking a missing field as the empty string, and a document with no text is
\* never in what retrieve returns for a non-empty query.
C6_TextlessAcceptedNeverRetrieved ==
    /\ (pc \in {"built", "build_error"} /\ Len(loaded) > 0) => pc = "built"
    /\ pc = "built" =>
          \A i \in 1..Len(docs) :
              texts[i] = Get(heap[docs[i]], "title", <<>>)
                           \o Get(heap[docs[i]], "description", <<>>)
    /\ (Called /\ last.query # <<>>) =>
          \A p \in 1..Len(last.results) :
              ~Textless(heap[docs[last.results[p][1] + 1]])

\* C8: no retrieve or answer call changes the engine's documents, texts,
\* vocabulary or document vectors: after any calls the engine holds what it
\* held when built, and a call returns what it returns on the engine as
\* built.
C8_EngineUnchangedByCalls ==
    pc = "built" =>
        /\ EngineState = atBuild
        /\ Called => last.results = RetrieveResult(EngineAtBuild, last.query, last.k)

\* An answer call that found a document has been made.
C8_Witness ==
    /\ pc = "built"
    /\ last.op = "answer"
    /\ last.results # <<>>
    /\ Len(docs) >= 2

\* C9: retrieve("", k) is the empty list for every k, and answer("", k) the
\* fallback string.
C9_EmptyQuery ==
    (Called /\ last.query = <<>>) =>
        /\ last.results = <<>>
        /\ last.op = "answer" => last.answer = Fallback

\* answer("", k) on an engine with documents, k at least 1.
C9_Witness ==
    /\ last.op = "answer"
    /\ last.query = <<>>
    /\ last.k >= 1
    /\ Len(docs) >= 1

\* C10 as stated: whatever the caller later does to the records it loaded,
\* the engine's stored documents and what retrieve and answer return stay
\* as they were when the engine was built.
C10_EngineNotAliased ==
    pc = "built" =>
        /\ EngineState = atBuild
        /\ Called => last.results = RetrieveResult(EngineAtBuild, last.query, last.k)
        /\ (last.op = "answer" /\ last.results # <<>>) =>
              LET doc == atBuild.docs[last.results[1][1] + 1]
              IN  last.answer = Format(Get(doc, "title", <<>>),
                                       Get(doc, "description", <<>>))

\* "relevant_index is among the first k elements of ranking"
AmongFirstK(ranking, relevant_index, k) ==
    \E j \in 1..Len(ranking) : j <= k /\ ranking[j] = relevant_index

\* The mean of 0/1 values v[1..n] as a fraction in lowest terms.
MeanOfHits(hits) ==
    LET n == Len(hits)
        total == Cardinality({i \in 1..n : hits[i]})
    IN  IF n = 0 \/ total = 0 THEN [num |-> 0, den |-> 1]
        ELSE [num |-> total \div Gcd(total, n), den |-> n \div Gcd(total, n)]

\* C7: for k >= 0, precision_at_k is 1.0 exactly when relevant_index is among
\* the first k elements of ranking and 0.0 otherwise (0.0 for k = 0);
\* evaluate returns the mean of it over the labelled queries, each ranking
\* being the indices of retrieve(query, k), and 0.0 for no queries.
C7_PrecisionAndMean ==
    /\ (pc = "patk_done" /\ patk.k >= 0) =>
          /\ patk.value \in {0, 1}
          /\ patk.value = 1 <=> AmongFirstK(patk.ranking, patk.relevant_index, patk.k)
          /\ patk.k = 0 => patk.value = 0
    /\ (pc = "evaluated" /\ evalK >= 0) =>
          /\ evalResult = Some(MeanOfHits(
                [i \in 1..Len(SAMPLE_QUERIES) |->
                    AmongFirstK(Indices(RetrieveResult(Engine, SAMPLE_QUERIES[i][1], evalK)),
                                SAMPLE_QUERIES[i][2], evalK)]))
          /\ SAMPLE_QUERIES = <<>> => evalResult = Some([num |-> 0, den |-> 1])

\* evaluate returned one half: of two queries one found its document within
\* the first k.
C7_Witness ==
    /\ pc = "evaluated"
    /\ evalK >= 1
    /\ Len(SAMPLE_QUERIES) = 2
    /\ evalResult = Some([num |-> 1, den |-> 2])

====
